---- MODULE Spec2Model ----
(***************************************************************************)
(* The Book data-access layer of app/crud.py over one table (app/models.py)*)
(* reached through per-request sessions (app/database.py).                 *)
(*                                                                         *)
(* Column values of the six payload fields are kept as strings, None       *)
(* included, so that a value and None can be compared; ids and timestamps  *)
(* are integers.  An Optional[Book] result is a sequence of zero or one    *)
(* row.                                                                    *)
(***************************************************************************)
EXTENDS Integers, Sequences, FiniteSets, TLC

VARIABLES store, clock, last, before, sess

vars == <<store, clock, last, before, sess>>

(* ------------------------------ bounds --------------------------------- *)
MaxBooks == 2
MaxClock == 1
MaxSet == 1
RaceBooks == 1

\* Ids and page arguments range a little past what MaxBooks rows can hold.
MaxId == MaxBooks + 1
MaxOffset == MaxBooks

(* ------------------------------ values --------------------------------- *)
None == "None"
NoId == 0
DefaultLimit == 10

Titles == {"Dune"}
Authors == {"Herbert"}
Years == {"1965"}
Prices == {"12.5", "9.99"}
Bools == {"True", "False"}
Descriptions == {"classic"}

UpdateKeys == {"title", "author", "year", "price", "in_stock", "description"}
RequiredKeys == {"title", "author", "year", "price"}
OptionalKeys == {"in_stock", "description"}

FieldValues(k) ==
    CASE k = "title" -> Titles
      [] k = "author" -> Authors
      [] k = "year" -> Years
      [] k = "price" -> Prices
      [] k = "in_stock" -> Bools
      [] k = "description" -> Descriptions

\* Columns declared Optional accept NULL; the others are NOT NULL.
Nullable(k) == k = "description"

\* BookUpdate: every field Optional with default None; a payload is the
\* set of fields the request set, each to a value of its type or to None.
BookUpdate ==
    UNION { { p \in [S -> UNION {FieldValues(k) : k \in S} \cup {None}] :
                \A k \in S : p[k] \in FieldValues(k) \cup {None} } :
            S \in { T \in SUBSET UpdateKeys : Cardinality(T) <= MaxSet } }

\* Payloads over the field set S, each field typed as declared.
Typed(S, nones) ==
    { p \in [S -> UNION {FieldValues(k) : k \in S} \cup {None}] :
        \A k \in S : p[k] \in FieldValues(k) \cup (IF k \in nones THEN {None} ELSE {}) }

\* BookCreate: four required fields; in_stock and description may be
\* left out, and description may be given as None.
BookCreate ==
    { r @@ o : r \in Typed(RequiredKeys, {}),
               o \in UNION { Typed(O, {"description"}) : O \in SUBSET OptionalKeys } }

(* --------------------------- entity and store -------------------------- *)
\* from_orm with the two clock readings taken the other way round.
from_orm_swapped(book, t1, t2) ==
    [id |-> NoId,
     title |-> book["title"],
     author |-> book["author"],
     year |-> book["year"],
     price |-> book["price"],
     in_stock |-> IF "in_stock" \in DOMAIN book THEN book["in_stock"] ELSE "True",
     description |-> IF "description" \in DOMAIN book THEN book["description"] ELSE None,
     created_at |-> t2,
     updated_at |-> t1]

\* Book.from_orm(book): the payload's fields, the declared defaults for
\* the fields it leaves out, no id yet, and one clock reading per
\* timestamp default (created_at first, updated_at second).
from_orm(book, t1, t2) ==
    [id |-> NoId,
     title |-> book["title"],
     author |-> book["author"],
     year |-> book["year"],
     price |-> book["price"],
     in_stock |-> IF "in_stock" \in DOMAIN book THEN book["in_stock"] ELSE "True",
     description |-> IF "description" \in DOMAIN book THEN book["description"] ELSE None,
     created_at |-> t1,
     updated_at |-> t2]

Ids(st) == { st[i].id : i \in 1..Len(st) }

SetMax(S) == CHOOSE m \in S : \A x \in S : x <= m

\* An id taken from the number of rows rather than from the largest id.
NextId_count(st) == Len(st) + 1

\* Integer primary key generated by the default (SQLite) store: one more
\* than the largest id present, 1 on an empty table.
NextId(st) == IF st = <<>> THEN 1 ELSE SetMax(Ids(st)) + 1

\* session.get(Book, book_id)
session_get(st, book_id) == SelectSeq(st, LAMBDA r : r.id = book_id)

\* session.add(db_book); session.commit() of a new object: INSERT.
commit_insert(st, db_book) == Append(st, [db_book EXCEPT !.id = NextId(st)])

(* ----------------------------- operations ------------------------------ *)
Outcome(st, kind, rows) == [store |-> st, kind |-> kind, rows |-> rows]

\* create_book without its commit: the object is returned as built.
create_book_uncommitted(st, book, t1, t2) ==
    Outcome(st, "row", <<from_orm(book, t1, t2)>>)

\* create_book: from_orm, INSERT, then refresh re-reads the row by its
\* generated primary key; the refreshed object is returned.
create_book(st, book, t1, t2) ==
    LET st2 == commit_insert(st, from_orm(book, t1, t2))
    IN  Outcome(st2, "row", session_get(st2, NextId(st)))

\* get_book
get_book(st, book_id) == Outcome(st, IF session_get(st, book_id) = <<>> THEN "none" ELSE "row",
                                 session_get(st, book_id))

Min(a, b) == IF a <= b THEN a ELSE b

\* get_books with the page one row too long.
get_books_inclusive(st, offset, limit) ==
    Outcome(st, "rows", SubSeq(st, offset + 1, Min(offset + limit + 1, Len(st))))

\* get_books: SELECT ... OFFSET offset LIMIT limit, rows in table order.
get_books(st, offset, limit) ==
    Outcome(st, "rows", SubSeq(st, offset + 1, Min(offset + limit, Len(st))))

\* book_data.dict() without exclude_unset: unset fields come as None.
dict_all(book_data) ==
    [k \in UpdateKeys |-> IF k \in DOMAIN book_data THEN book_data[k] ELSE None]

\* book_data.dict(exclude_unset=True): only the fields the request set.
dict_exclude_unset(book_data) == book_data

\* for key, value in ...: setattr(db_book, key, value)
setattrs(db_book, items) ==
    [k \in DOMAIN db_book |-> IF k \in DOMAIN items THEN items[k] ELSE db_book[k]]

\* update_timestamp that leaves updated_at alone.
update_timestamp_noop(db_book, now) == db_book

\* Book.update_timestamp
update_timestamp(db_book, now) == [db_book EXCEPT !.updated_at = now]

\* A flush that writes every column of the object.
Dirty_all(loaded, obj) == DOMAIN obj

\* Attributes of the object whose value differs from the value loaded;
\* the flush writes these columns and no others.
Dirty(loaded, obj) == { k \in DOMAIN obj : obj[k] # loaded[k] }

\* session.add(db_book); session.commit(); session.refresh(db_book) of a
\* loaded object: UPDATE of the dirty columns WHERE id = obj.id, then a
\* re-read.  A NULL written to a NOT NULL column, or a row that is gone,
\* is a storage fault and the transaction is rolled back.
commit_update(st, loaded, obj) ==
    LET dirty == Dirty(loaded, obj)
        st2 == [i \in 1..Len(st) |->
                  IF st[i].id = obj.id
                  THEN [k \in DOMAIN st[i] |-> IF k \in dirty THEN obj[k] ELSE st[i][k]]
                  ELSE st[i]]
    IN  IF \E k \in dirty : k \in UpdateKeys /\ obj[k] = None /\ ~Nullable(k)
        THEN Outcome(st, "fault", <<>>)
        ELSE IF session_get(st, obj.id) = <<>>
        THEN Outcome(st, "fault", <<>>)
        ELSE Outcome(st2, "row", session_get(st2, obj.id))

\* update_book without the not-found return: setattr on None faults.
update_book_unchecked(st, book_id, book_data, now) ==
    LET found == session_get(st, book_id)
    IN  IF found = <<>>
        THEN Outcome(st, "fault", <<>>)
        ELSE commit_update(st, found[1],
                 update_timestamp(setattrs(found[1], dict_exclude_unset(book_data)), now))

\* update_book
update_book(st, book_id, book_data, now) ==
    LET found == session_get(st, book_id)
    IN  IF found = <<>>
        THEN Outcome(st, "none", <<>>)
        ELSE commit_update(st, found[1],
                 update_timestamp(setattrs(found[1], dict_exclude_unset(book_data)), now))

\* delete_book without its commit: True is returned, the row stays.
delete_book_uncommitted(st, book_id) ==
    IF session_get(st, book_id) = <<>>
    THEN Outcome(st, "false", <<>>)
    ELSE Outcome(st, "true", <<>>)

\* delete_book
delete_book(st, book_id) ==
    IF session_get(st, book_id) = <<>>
    THEN Outcome(st, "false", <<>>)
    ELSE Outcome(SelectSeq(st, LAMBDA r : r.id # book_id), "true", <<>>)

(* ------------------------- sequential requests ------------------------- *)
NoData == <<>>

Call(op, book_id, data, offset, limit, out) ==
    [op |-> op, id |-> book_id, data |-> data, offset |-> offset, limit |-> limit,
     now |-> clock, kind |-> out.kind, rows |-> out.rows]

Idle == [pc |-> "idle"]

Init ==
    /\ store = <<>>
    /\ clock = 0
    /\ last = Call("start", NoId, NoData, 0, 0, Outcome(<<>>, "none", <<>>))
    /\ before = <<>>
    /\ sess = [s \in {1, 2} |-> Idle]

\* datetime.utcnow() moves on between two readings, or does not; it is
\* taken never to go backwards.
Tick ==
    /\ clock < MaxClock
    /\ clock' = clock + 1
    /\ UNCHANGED <<store, last, before, sess>>

Done(op, book_id, data, offset, limit, out) ==
    /\ store' = out.store
    /\ before' = store
    /\ last' = Call(op, book_id, data, offset, limit, out)
    /\ UNCHANGED sess

CreateBook ==
    \E book \in BookCreate, t2 \in {clock, clock + 1} :
        /\ Len(store) < MaxBooks
        /\ NextId(store) <= MaxId
        /\ t2 <= MaxClock
        /\ clock' = t2
        /\ Done("create_book", NextId(store), NoData, 0, 0, create_book(store, book, clock, t2))

GetBook ==
    \E book_id \in 1..MaxId :
        /\ Done("get_book", book_id, NoData, 0, 0, get_book(store, book_id))
        /\ UNCHANGED clock

GetBooks ==
    \E offset \in 0..MaxOffset, limit \in (0..MaxOffset) \cup {DefaultLimit} :
        /\ Done("get_books", NoId, NoData, offset, limit, get_books(store, offset, limit))
        /\ UNCHANGED clock

UpdateBook ==
    \E book_id \in 1..MaxId, book_data \in BookUpdate :
        /\ Done("update_book", book_id, book_data, 0, 0,
                update_book(store, book_id, book_data, clock))
        /\ UNCHANGED clock

DeleteBook ==
    \E book_id \in 1..MaxId :
        /\ Done("delete_book", book_id, NoData, 0, 0, delete_book(store, book_id))
        /\ UNCHANGED clock

Next == Tick \/ CreateBook \/ GetBook \/ GetBooks \/ UpdateBook \/ DeleteBook

Spec == Init /\ [][Next]_vars

(* ------------------------- interleaved requests ------------------------ *)
\* Each request runs update_book in its own session (get_session).  The
\* object a session has loaded stays as it was read until the session
\* commits; what another session commits meanwhile is not seen.
Sessions == {1, 2}

Loaded(book_id, data, row) ==
    [pc |-> "loaded", id |-> book_id, data |-> data, row |-> row, raced |-> FALSE]

\* The rest of update_book for an object loaded earlier.
update_loaded(st, loaded, book_data, now) ==
    commit_update(st, loaded,
        update_timestamp(setattrs(loaded, dict_exclude_unset(book_data)), now))

Finished(s, prior, out) ==
    [pc |-> "done", id |-> sess[s].id, data |-> sess[s].data, row |-> sess[s].row,
     raced |-> sess[s].raced, now |-> clock, prior |-> prior,
     kind |-> out.kind, rows |-> out.rows]

RaceInit ==
    /\ store = <<>>
    /\ clock = 0
    /\ last = Call("start", NoId, NoData, 0, 0, Outcome(<<>>, "none", <<>>))
    /\ before = <<>>
    /\ sess = [s \in Sessions |-> Idle]

RaceTick ==
    /\ clock < MaxClock
    /\ clock' = clock + 1
    /\ UNCHANGED <<store, last, before, sess>>

\* create_book, start to end
RaceCreate ==
    \E book \in BookCreate, t2 \in {clock, clock + 1} :
        /\ Len(store) < RaceBooks
        /\ t2 <= MaxClock
        /\ clock' = t2
        /\ store' = create_book(store, book, clock, t2).store
        /\ UNCHANGED <<last, before, sess>>

\* update_book up to db_book = session.get(Book, book_id), for a row that
\* is there.
RaceLoad(s) ==
    \E book_id \in Ids(store), book_data \in BookUpdate :
        /\ sess[s].pc = "idle"
        /\ sess' = [sess EXCEPT ![s] = Loaded(book_id, book_data, session_get(store, book_id)[1])]
        /\ UNCHANGED <<store, clock, last, before>>

\* update_book from the setattr loop to its return.  A session that
\* loaded the same row and has not committed yet has now been overtaken.
RaceCommit(s) ==
    /\ sess[s].pc = "loaded"
    /\ LET out == update_loaded(store, sess[s].row, sess[s].data, clock)
       IN  /\ store' = out.store
           /\ sess' = [t \in Sessions |->
                         IF t = s THEN Finished(s, session_get(store, sess[s].id), out)
                         ELSE IF sess[t].pc = "loaded" /\ sess[t].id = sess[s].id
                                 /\ out.kind = "row"
                              THEN [sess[t] EXCEPT !.raced = TRUE]
                              ELSE sess[t]]
    /\ UNCHANGED <<clock, last, before>>

RaceNext ==
    \/ RaceTick
    \/ RaceCreate
    \/ \E s \in Sessions : RaceLoad(s)
    \/ \E s \in Sessions : RaceCommit(s)

RaceSpec == RaceInit /\ [][RaceNext]_vars

(* ------------------------------- claims -------------------------------- *)
Columns == {"id", "title", "author", "year", "price", "in_stock", "description",
            "created_at", "updated_at"}

\* A payload that sets no NOT NULL column to None.
Storable(data) == \A k \in DOMAIN data : data[k] = None => Nullable(k)

OldRow == session_get(before, last.id)[1]
NewRow == session_get(store, last.id)[1]
Updated == last.op = "update_book" /\ last.kind = "row"

\* C1: update_book on a stored Book writes the payload's value into every
\* field the payload sets and leaves every other field except updated_at,
\* id and created_at included, as it was; a payload that cannot be stored
\* changes nothing at all.
C1_PartialUpdateFrame ==
    (last.op = "update_book" /\ session_get(before, last.id) # <<>>) =>
        /\ Storable(last.data) =>
             /\ last.kind = "row"
             /\ \A k \in DOMAIN last.data : NewRow[k] = last.data[k]
             /\ \A k \in Columns \ (DOMAIN last.data \cup {"updated_at"}) :
                    NewRow[k] = OldRow[k]
        /\ ~Storable(last.data) => last.kind = "fault" /\ store = before

\* A payload of price alone has changed price and updated_at.
C1_Witness ==
    /\ Updated
    /\ DOMAIN last.data = {"price"}
    /\ NewRow.price # OldRow.price
    /\ NewRow.updated_at # OldRow.updated_at

\* C2: for an id with no row when the call is made, get_book and
\* update_book return None and delete_book returns False; none of them
\* faults, and the store is left as it was.
C2_MissingIdSignals ==
    (last.op \in {"get_book", "update_book", "delete_book"} /\ last.id \notin Ids(before)) =>
        /\ last.kind = (IF last.op = "delete_book" THEN "false" ELSE "none")
        /\ last.rows = <<>>
        /\ store = before

\* update_book of an id that is not among the stored ones.
C2_Witness ==
    /\ last.op = "update_book"
    /\ before # <<>>
    /\ last.id \notin Ids(before)
    /\ last.kind = "none"

\* C3: the record create_book returns has a generated id and its
\* created_at equals its updated_at.
C3_CreatedEqualsUpdated ==
    last.op = "create_book" =>
        /\ Len(last.rows) = 1
        /\ last.rows[1].id # NoId
        /\ last.rows[1].created_at = last.rows[1].updated_at

\* C4: once delete_book(id) has returned True, get_book(id) returns None
\* and no stored row carries that id.
C4_DeletedIsGone ==
    (last.op = "delete_book" /\ last.kind = "true") =>
        /\ get_book(store, last.id).kind = "none"
        /\ get_book(store, last.id).rows = <<>>
        /\ last.id \notin Ids(store)

\* A row was deleted from a store that held another one.
C4_Witness ==
    /\ last.op = "delete_book"
    /\ last.kind = "true"
    /\ last.id \in Ids(before)
    /\ store # <<>>

\* C5: every stored Book has updated_at >= created_at.
C5_UpdatedNotBeforeCreated ==
    \A i \in 1..Len(store) : store[i].updated_at >= store[i].created_at

\* An update has moved updated_at past created_at.
C5_Witness ==
    /\ Updated
    /\ NewRow.updated_at > NewRow.created_at
    /\ OldRow.updated_at = OldRow.created_at

\* C6: every stored Book has an id, no two stored Books share one, and
\* neither update_book nor a later create_book changes the id of a row
\* already stored.
C6_IdAssignedOnceUnique ==
    /\ \A i \in 1..Len(store) : store[i].id # NoId
    /\ \A i, j \in 1..Len(store) : i # j => store[i].id # store[j].id
    /\ last.op = "update_book" =>
         /\ Len(store) = Len(before)
         /\ \A i \in 1..Len(store) : store[i].id = before[i].id
    /\ last.op = "create_book" =>
         /\ Len(store) = Len(before) + 1
         /\ \A i \in 1..Len(before) : store[i].id = before[i].id

\* A Book was created after the deletion of an older one, and another
\* row is stored beside it.
C6_Witness ==
    /\ last.op = "create_book"
    /\ Len(store) = 2
    /\ store[1].id > 1

\* C7: right after create_book, get_book of the returned id yields the
\* record create_book returned, field for field.
C7_CreateThenGet ==
    last.op = "create_book" =>
        /\ Len(last.rows) = 1
        /\ get_book(store, last.rows[1].id).kind = "row"
        /\ get_book(store, last.rows[1].id).rows = last.rows

\* A Book created with the defaults of in_stock and description.
C7_Witness ==
    /\ last.op = "create_book"
    /\ Len(last.rows) = 1
    /\ last.rows[1].in_stock = "True"
    /\ last.rows[1].description = None
    /\ last.rows[1].updated_at > last.rows[1].created_at

\* C8 as stated: every successful update_book leaves a stored updated_at
\* that differs from the one before the call.
C8_UpdatedAtDiffers ==
    Updated => NewRow.updated_at # OldRow.updated_at

\* C8 amended: every successful update_book, an empty payload included,
\* stores the clock reading of the call as updated_at; it is never earlier
\* than the value before, and differs from it when the clock has moved on
\* since.
C8_UpdatedAtIsReading ==
    Updated =>
        /\ NewRow.updated_at = last.now
        /\ NewRow.updated_at >= OldRow.updated_at
        /\ OldRow.updated_at < last.now => NewRow.updated_at # OldRow.updated_at

\* An empty payload has changed updated_at.
C8_Witness ==
    /\ Updated
    /\ DOMAIN last.data = {}
    /\ NewRow.updated_at # OldRow.updated_at

\* C9: get_books(offset, limit) returns at most limit rows, the stored
\* ones from position offset on in table order: none from an empty
\* store, and the one row of a one-row store for get_books(0, 10).
C9_PageOfStore ==
    last.op = "get_books" =>
        LET rest == Len(store) - last.offset
        IN  /\ Len(last.rows) <= last.limit
            /\ Len(last.rows) = (IF rest <= 0 THEN 0
                                 ELSE IF last.limit <= rest THEN last.limit ELSE rest)
            /\ \A i \in 1..Len(last.rows) : last.rows[i] = store[last.offset + i]
            /\ store = <<>> => last.rows = <<>>
            /\ (Len(store) = 1 /\ last.offset = 0 /\ last.limit = DefaultLimit) =>
                   last.rows = store

\* The second of two stored rows, read as a page of one.
C9_Witness ==
    /\ last.op = "get_books"
    /\ Len(store) = 2
    /\ last.offset = 1
    /\ last.limit = 1
    /\ last.rows = <<store[2]>>

\* An update_book that committed after another session's update_book of
\* the same row, which it had loaded before that commit.
Overtaken(s) == sess[s].pc = "done" /\ sess[s].raced /\ Storable(sess[s].data)

====
